---- MODULE Spec2Model ----
(***************************************************************************)
(* Model of creational/abstract_factory.py: the creator hierarchy          *)
(* (ShoesCreator, SneakersCreator, CrocksCreator), the product hierarchy   *)
(* (Shoes, Sneakers, Crocks), client_side_method and the __main__ block.   *)
(*                                                                         *)
(* The module is either run as a script (name = "__main__": the block at   *)
(* lines 107-112 runs) or imported (name = "abstract_factory": the         *)
(* importing code instantiates classes, defines subclasses of the two      *)
(* abstract bases and calls the functions in any order).  Every Python     *)
(* call is a frame on `stack`; each action is one step of one function.    *)
(***************************************************************************)
EXTENDS Naturals, Sequences, FiniteSets, TLC

\* Bounds of the model: objects an importer instantiates, top-level calls it makes.
MaxInstances == 2
MaxCalls == 2

VARIABLES
    name,      \* __name__ of the module: "__main__" or "abstract_factory"
    mainpc,    \* position in the __main__ block (line number; "done" = past line 112)
    defined,   \* classes that exist
    heap,      \* objects ever allocated: heap[id] = [cls, attrs]
    stack,     \* call stack, top last
    stdout,    \* what print has written: one string per print call
    exc,       \* exception being propagated / left by the last top-level call ("" = none)
    ret,       \* value returned by the last top-level call
    ncalls,    \* top-level calls made by the importer
    ninst,     \* objects instantiated by the importer
    call,      \* the current (or last) top-level call: [fn, self, mark]
    log,       \* history: events of the current top-level call
    made,      \* history: every return of a factory_method frame
    runs       \* history: every finished top-level client_side_method call

vars == <<name, mainpc, defined, heap, stack, stdout, exc, ret, ncalls, ninst, call, log, made, runs>>

----------------------------------------------------------------------------
\* Values

None == [t |-> "none", s |-> "", o |-> 0]
Str(s) == [t |-> "str", s |-> s, o |-> 0]
Obj(o) == [t |-> "obj", s |-> "", o |-> o]

\* str(v), as print and an f-string replacement field apply it
ToStr(v) == IF v.t = "str" THEN v.s ELSE IF v.t = "none" THEN "None" ELSE "<object>"

----------------------------------------------------------------------------
\* Classes

ModuleClasses == {"ShoesCreator", "SneakersCreator", "CrocksCreator", "Shoes", "Sneakers", "Crocks"}

\* Subclasses an importer may write: one that overrides nothing, one whose
\* factory_method is `return super().factory_method()`, and a product that
\* overrides nothing.
UserClasses == {"BareCreator", "DelegatingCreator", "BareShoes"}

Base(c) ==
    CASE c \in {"SneakersCreator", "CrocksCreator", "BareCreator", "DelegatingCreator"} -> "ShoesCreator"
      [] c \in {"Sneakers", "Crocks", "BareShoes"} -> "Shoes"
      [] OTHER -> "ABC"

\* methods a class body defines
Own(c) ==
    CASE c = "ShoesCreator" -> {"factory_method", "some_operation"}
      [] c \in {"SneakersCreator", "CrocksCreator", "DelegatingCreator"} -> {"factory_method"}
      [] c \in {"Shoes", "Sneakers", "Crocks"} -> {"operation"}
      [] OTHER -> {}

\* methods a class body marks @abstractmethod
AbstractOwn(c) ==
    CASE c = "ShoesCreator" -> {"factory_method"}
      [] c = "Shoes" -> {"operation"}
      [] OTHER -> {}

\* __abstractmethods__ as ABCMeta computes it: the class's own abstract
\* methods and the inherited ones it does not override
RECURSIVE AbstractMethods(_)
AbstractMethods(c) ==
    IF c = "ABC" THEN {}
    ELSE AbstractOwn(c) \cup (AbstractMethods(Base(c)) \ Own(c))

\* attribute lookup along the MRO: the class whose body defines method m
RECURSIVE Resolve(_, _)
Resolve(c, m) ==
    IF c = "ABC" THEN "object"
    ELSE IF m \in Own(c) THEN c
    ELSE Resolve(Base(c), m)

IsCreator(c) == c = "ShoesCreator" \/ Base(c) = "ShoesCreator"

----------------------------------------------------------------------------
\* Frames and events

Frame(c, f, o) == [cls |-> c, fn |-> f, self |-> o, pc |-> 0, shoes |-> None, val |-> None]
Event(e, f, o) == [ev |-> e, fn |-> f, obj |-> o]

Top == stack[Len(stack)]
Running == stack # <<>> /\ exc = ""
At(c, f, p) == Running /\ Top.cls = c /\ Top.fn = f /\ Top.pc = p

\* the stack with its top frame replaced
WithTop(fr) == [stack EXCEPT ![Len(stack)] = fr]

\* what the caller of a finished top-level client_side_method call observed
RunRecord(e) ==
    [creator |-> call.self, cls |-> heap[call.self].cls,
     out |-> SubSeq(stdout, call.mark + 1, Len(stdout)), exc |-> e]

Init ==
    /\ name \in {"__main__", "abstract_factory"}
    /\ mainpc = "108"
    /\ defined = ModuleClasses
    /\ heap = <<>>
    /\ stack = <<>>
    /\ stdout = <<>>
    /\ exc = ""
    /\ ret = None
    /\ ncalls = 0
    /\ ninst = 0
    /\ call = [fn |-> "", self |-> 0, mark |-> 0]
    /\ log = <<>>
    /\ made = <<>>
    /\ runs = <<>>


----------------------------------------------------------------------------
\* Calls, returns, exceptions

\* a top-level call of function f of class c on object o begins
StartCall(c, f, o) ==
    /\ stack' = <<Frame(c, f, o)>>
    /\ call' = [fn |-> f, self |-> o, mark |-> Len(stdout)]
    /\ log' = <<Event("call", f, o)>>
    /\ exc' = ""
    /\ ret' = None

\* the top frame moves to pc p and calls method f of object o, found in class c
Invoke(p, c, f, o) ==
    /\ stack' = Append(WithTop([Top EXCEPT !.pc = p]), Frame(c, f, o))
    /\ log' = Append(log, Event("call", f, o))

\* the top frame returns v to its caller; lg is the log up to the return
ReturnWith(v, lg) ==
    /\ made' = IF Top.fn = "factory_method"
               THEN Append(made, [creator |-> Top.self, cls |-> Top.cls, val |-> v,
                                  fresh |-> v.t = "obj" /\ v.o > Len(heap)])
               ELSE made
    /\ log' = Append(lg, Event("return", Top.fn, v.o))
    /\ IF Len(stack) = 1
       THEN /\ stack' = <<>>
            /\ ret' = v
            /\ runs' = IF call.fn = "client_side_method"
                       THEN Append(runs, RunRecord(""))
                       ELSE runs
       ELSE /\ stack' = [SubSeq(stack, 1, Len(stack) - 1) EXCEPT ![Len(stack) - 1].val = v]
            /\ UNCHANGED <<ret, runs>>

Return(v) == ReturnWith(v, log)

\* the top frame raises exception e
Raise(e) ==
    /\ exc' = e
    /\ log' = Append(log, Event("raise", e, 0))

\* Faulty variant of CanInstantiate: the bases without ABCMeta, so that any
\* class can be instantiated.
CanInstantiate_Always(c) == TRUE

\* cls(): ABCMeta refuses to instantiate a class that still has abstract methods
CanInstantiate(c) == AbstractMethods(c) = {}

NewObject(c) == [cls |-> c, attrs |-> {}]

----------------------------------------------------------------------------
\* ShoesCreator and its subclasses

\* ShoesCreator.factory_method: the body is `pass`
ShoesCreator_factory_method ==
    /\ At("ShoesCreator", "factory_method", 0)
    /\ Return(None)
    /\ UNCHANGED <<name, mainpc, defined, heap, stdout, exc, ncalls, ninst, call>>

\* Faulty variant of ShoesCreator_some_operation_create: the factory method is
\* called a second time after it has returned a product.
ShoesCreator_some_operation_create_Twice ==
    /\ At("ShoesCreator", "some_operation", 0)
    /\ stack' = Append(WithTop([Top EXCEPT !.pc = IF Top.val = None THEN 0 ELSE 1, !.shoes = Top.val]),
                       Frame(Resolve(heap[Top.self].cls, "factory_method"), "factory_method", Top.self))
    /\ log' = Append(log, Event("call", "factory_method", Top.self))
    /\ UNCHANGED <<name, mainpc, defined, heap, stdout, exc, ret, ncalls, ninst, call, made, runs>>

\* ShoesCreator.some_operation, line 42: shoes = self.factory_method()
ShoesCreator_some_operation_create ==
    /\ At("ShoesCreator", "some_operation", 0)
    /\ Invoke(1, Resolve(heap[Top.self].cls, "factory_method"), "factory_method", Top.self)
    /\ UNCHANGED <<name, mainpc, defined, heap, stdout, exc, ret, ncalls, ninst, call, made, runs>>

\* ShoesCreator.some_operation, line 46: shoes.operation()
ShoesCreator_some_operation_use ==
    /\ At("ShoesCreator", "some_operation", 1)
    /\ IF Top.val.t = "obj" /\ Resolve(heap[Top.val.o].cls, "operation") # "object"
       THEN /\ stack' = Append(WithTop([Top EXCEPT !.pc = 2, !.shoes = Top.val]),
                               Frame(Resolve(heap[Top.val.o].cls, "operation"), "operation", Top.val.o))
            /\ log' = Append(log, Event("call", "operation", Top.val.o))
            /\ UNCHANGED exc
       ELSE /\ Raise("AttributeError")
            /\ UNCHANGED stack
    /\ UNCHANGED <<name, mainpc, defined, heap, stdout, ret, ncalls, ninst, call, made, runs>>

\* Faulty variant of Format: the blank after the colon is missing.
Format_NoBlank(v) == "ShoesCreator works with:" \o ToStr(v)

\* the f-string of lines 45-47
Format(v) == "ShoesCreator works with: " \o ToStr(v)

\* ShoesCreator.some_operation, lines 45-49: build the result and return it
ShoesCreator_some_operation_return ==
    /\ At("ShoesCreator", "some_operation", 2)
    /\ Return(Str(Format(Top.val)))
    /\ UNCHANGED <<name, mainpc, defined, heap, stdout, exc, ncalls, ninst, call>>

\* Faulty variant of ReturnNew: the product is made and the `return` is
\* missing, so that the method returns None.
ReturnNew_NoReturn(product) ==
    IF CanInstantiate(product)
    THEN /\ heap' = Append(heap, NewObject(product))
         /\ ReturnWith(None, Append(log, Event("new", product, Len(heap) + 1)))
         /\ UNCHANGED exc
    ELSE /\ Raise("TypeError")
         /\ UNCHANGED <<heap, stack, ret, made, runs>>

\* a concrete factory method whose body is `return <product>()`
ReturnNew(product) ==
    IF CanInstantiate(product)
    THEN /\ heap' = Append(heap, NewObject(product))
         /\ ReturnWith(Obj(Len(heap) + 1), Append(log, Event("new", product, Len(heap) + 1)))
         /\ UNCHANGED exc
    ELSE /\ Raise("TypeError")
         /\ UNCHANGED <<heap, stack, ret, made, runs>>

\* Faulty variant of SneakersCreator_factory_method: a Sneakers object that
\* already exists is handed out again instead of a new one.
SneakersCreator_factory_method_Cached ==
    /\ At("SneakersCreator", "factory_method", 0)
    /\ IF \E o \in 1..Len(heap) : heap[o].cls = "Sneakers"
       THEN /\ Return(Obj(CHOOSE o \in 1..Len(heap) : heap[o].cls = "Sneakers"))
            /\ UNCHANGED <<heap, exc>>
       ELSE ReturnNew("Sneakers")
    /\ UNCHANGED <<name, mainpc, defined, stdout, ncalls, ninst, call>>

\* SneakersCreator.factory_method: return Sneakers()
SneakersCreator_factory_method ==
    /\ At("SneakersCreator", "factory_method", 0)
    /\ ReturnNew("Sneakers")
    /\ UNCHANGED <<name, mainpc, defined, stdout, ncalls, ninst, call>>

\* Faulty variant of CrocksCreator_factory_method: the body copied from
\* SneakersCreator and not adapted.
CrocksCreator_factory_method_Copied ==
    /\ At("CrocksCreator", "factory_method", 0)
    /\ ReturnNew("Sneakers")
    /\ UNCHANGED <<name, mainpc, defined, stdout, ncalls, ninst, call>>

\* CrocksCreator.factory_method: return Crocks()
CrocksCreator_factory_method ==
    /\ At("CrocksCreator", "factory_method", 0)
    /\ ReturnNew("Crocks")
    /\ UNCHANGED <<name, mainpc, defined, stdout, ncalls, ninst, call>>

\* an importer's subclass: factory_method is `return super().factory_method()`
DelegatingCreator_factory_method_super ==
    /\ At("DelegatingCreator", "factory_method", 0)
    /\ Invoke(1, Resolve(Base("DelegatingCreator"), "factory_method"), "factory_method", Top.self)
    /\ UNCHANGED <<name, mainpc, defined, heap, stdout, exc, ret, ncalls, ninst, call, made, runs>>

DelegatingCreator_factory_method_return ==
    /\ At("DelegatingCreator", "factory_method", 1)
    /\ Return(Top.val)
    /\ UNCHANGED <<name, mainpc, defined, heap, stdout, exc, ncalls, ninst, call>>

----------------------------------------------------------------------------
\* Shoes and its subclasses

\* Faulty variant of Sneakers_operation: the exclamation mark is missing.
Sneakers_operation_Typo ==
    /\ At("Sneakers", "operation", 0)
    /\ Return(Str("Sneakers shoes"))
    /\ UNCHANGED <<name, mainpc, defined, heap, stdout, exc, ncalls, ninst, call>>

\* Sneakers.operation
Sneakers_operation ==
    /\ At("Sneakers", "operation", 0)
    /\ Return(Str("Sneakers shoes!"))
    /\ UNCHANGED <<name, mainpc, defined, heap, stdout, exc, ncalls, ninst, call>>

\* Crocks.operation
Crocks_operation ==
    /\ At("Crocks", "operation", 0)
    /\ Return(Str("Crocks shoes!"))
    /\ UNCHANGED <<name, mainpc, defined, heap, stdout, exc, ncalls, ninst, call>>

----------------------------------------------------------------------------
\* client_side_method and print

\* Faulty variant of Printed: print(v, end="").
Printed_NoBreak(v) == Append(stdout, ToStr(v))

\* print(v): str(v) and the line break (end="\n") go to standard output
Printed(v) == Append(stdout, ToStr(v) \o "\n")


\* client_side_method, line 104: creator.some_operation()
client_side_method_call ==
    /\ At("", "client_side_method", 0)
    /\ Invoke(1, Resolve(heap[Top.self].cls, "some_operation"), "some_operation", Top.self)
    /\ UNCHANGED <<name, mainpc, defined, heap, stdout, exc, ret, ncalls, ninst, call, made, runs>>

\* Faulty variant of client_side_method_print: a line that standard output
\* already holds is not written again.
client_side_method_print_Once ==
    /\ At("", "client_side_method", 1)
    /\ stdout' = IF \E i \in 1..Len(stdout) : stdout[i] = ToStr(Top.val) \o "\n"
                 THEN stdout
                 ELSE Printed(Str(ToStr(Top.val)))
    /\ stack' = WithTop([Top EXCEPT !.pc = 2])
    /\ log' = Append(log, Event("print", "client_side_method", 0))
    /\ UNCHANGED <<name, mainpc, defined, heap, exc, ret, ncalls, ninst, call, made, runs>>

\* client_side_method, line 104: print(f"{...}")
client_side_method_print ==
    /\ At("", "client_side_method", 1)
    /\ stdout' = Printed(Str(ToStr(Top.val)))
    /\ stack' = WithTop([Top EXCEPT !.pc = 2])
    /\ log' = Append(log, Event("print", "client_side_method", 0))
    /\ UNCHANGED <<name, mainpc, defined, heap, exc, ret, ncalls, ninst, call, made, runs>>

\* client_side_method: the function ends, returning None
client_side_method_return ==
    /\ At("", "client_side_method", 2)
    /\ Return(None)
    /\ UNCHANGED <<name, mainpc, defined, heap, stdout, exc, ncalls, ninst, call>>

\* an exception no frame handles leaves the top frame
Unwind ==
    /\ stack # <<>>
    /\ exc # ""
    /\ stack' = SubSeq(stack, 1, Len(stack) - 1)
    /\ runs' = IF Len(stack) = 1 /\ call.fn = "client_side_method"
               THEN Append(runs, RunRecord(exc))
               ELSE runs
    /\ UNCHANGED <<name, mainpc, defined, heap, stdout, exc, ret, ncalls, ninst, call, log, made>>

----------------------------------------------------------------------------
\* The __main__ block, lines 107-112

AtMain(l) == name = "__main__" /\ mainpc = l /\ stack = <<>> /\ exc = ""

MainPrint(l, v, next) ==
    /\ AtMain(l)
    /\ stdout' = Printed(v)
    /\ mainpc' = next
    /\ UNCHANGED <<name, defined, heap, stack, exc, ret, ncalls, ninst, call, log, made, runs>>

\* the argument of client_side_method(...) is evaluated: c()
MainNew(l, c, next) ==
    /\ AtMain(l)
    /\ IF CanInstantiate(c)
       THEN heap' = Append(heap, NewObject(c)) /\ ret' = Obj(Len(heap) + 1) /\ UNCHANGED exc
       ELSE exc' = "TypeError" /\ UNCHANGED <<heap, ret>>
    /\ call' = [fn |-> c, self |-> 0, mark |-> Len(stdout)]
    /\ log' = <<Event("call", c, 0)>>
    /\ mainpc' = next
    /\ UNCHANGED <<name, defined, stack, stdout, ncalls, ninst, made, runs>>

\* client_side_method is called with the object just made
MainCall(l, next) ==
    /\ AtMain(l)
    /\ StartCall("", "client_side_method", ret.o)
    /\ mainpc' = next
    /\ UNCHANGED <<name, defined, heap, stdout, ncalls, ninst, made, runs>>

\* Faulty variant of Main110: the print() between the two parts is missing.
Main110_Missing ==
    /\ AtMain("110")
    /\ mainpc' = "111"
    /\ UNCHANGED <<name, defined, heap, stack, stdout, exc, ret, ncalls, ninst, call, log, made, runs>>

Main108 == MainPrint("108", Str("SneakersCreator:"), "109")
Main109_new == MainNew("109", "SneakersCreator", "109.call")
Main109_call == MainCall("109.call", "110")
Main110 == MainPrint("110", Str(""), "111")
Main111 == MainPrint("111", Str("CrocksCreator:"), "112")
Main112_new == MainNew("112", "CrocksCreator", "112.call")
Main112_call == MainCall("112.call", "done")

----------------------------------------------------------------------------
\* Code that imports the module

Importer == name = "abstract_factory" /\ stack = <<>>

\* a class statement: class c(Base(c)). ABCMeta accepts it whatever it overrides.
DefineSubclass(c) ==
    /\ Importer
    /\ c \notin defined
    /\ defined' = defined \cup {c}
    /\ UNCHANGED <<name, mainpc, heap, stack, stdout, exc, ret, ncalls, ninst, call, log, made, runs>>

\* c()
Instantiate(c) ==
    /\ Importer
    /\ c \in defined
    /\ ninst < MaxInstances
    /\ ninst' = ninst + 1
    /\ call' = [fn |-> c, self |-> 0, mark |-> Len(stdout)]
    /\ log' = <<Event("call", c, 0)>>
    /\ IF CanInstantiate(c)
       THEN heap' = Append(heap, NewObject(c)) /\ ret' = Obj(Len(heap) + 1) /\ exc' = ""
       ELSE exc' = "TypeError" /\ ret' = None /\ UNCHANGED heap
    /\ UNCHANGED <<name, mainpc, defined, stack, stdout, ncalls, made, runs>>

CanCall == Importer /\ ncalls < MaxCalls

\* o.f() for a method f of o
CallMethod(o, f) ==
    /\ CanCall
    /\ Resolve(heap[o].cls, f) # "object"
    /\ StartCall(Resolve(heap[o].cls, f), f, o)
    /\ ncalls' = ncalls + 1
    /\ UNCHANGED <<name, mainpc, defined, heap, stdout, ninst, made, runs>>

\* client_side_method(o) for a creator o
CallClient(o) ==
    /\ CanCall
    /\ IsCreator(heap[o].cls)
    /\ StartCall("", "client_side_method", o)
    /\ ncalls' = ncalls + 1
    /\ UNCHANGED <<name, mainpc, defined, heap, stdout, ninst, made, runs>>

Methods == {"factory_method", "some_operation", "operation"}

Next ==
    \/ ShoesCreator_factory_method
    \/ ShoesCreator_some_operation_create
    \/ ShoesCreator_some_operation_use
    \/ ShoesCreator_some_operation_return
    \/ SneakersCreator_factory_method
    \/ CrocksCreator_factory_method
    \/ DelegatingCreator_factory_method_super
    \/ DelegatingCreator_factory_method_return
    \/ Sneakers_operation
    \/ Crocks_operation
    \/ client_side_method_call
    \/ client_side_method_print
    \/ client_side_method_return
    \/ Unwind
    \/ Main108
    \/ Main109_new
    \/ Main109_call
    \/ Main110
    \/ Main111
    \/ Main112_new
    \/ Main112_call
    \/ \E c \in UserClasses : DefineSubclass(c)
    \/ \E c \in ModuleClasses \cup UserClasses : Instantiate(c)
    \/ \E o \in 1..Len(heap), f \in Methods : CallMethod(o, f)
    \/ \E o \in 1..Len(heap) : CallClient(o)

Spec == Init /\ [][Next]_vars


----------------------------------------------------------------------------
\* Properties

ConcreteCreators == {"SneakersCreator", "CrocksCreator"}
ClassOf(o) == heap[o].cls
LastMade == made[Len(made)]

\* a top-level call of f has ended
Ended(f) == stack = <<>> /\ call.fn = f

\* C1: some_operation() of a SneakersCreator returns exactly
\* "ShoesCreator works with: Sneakers shoes!" and of a CrocksCreator exactly
\* "ShoesCreator works with: Crocks shoes!", to the importer and to
\* client_side_method alike; the text after the prefix is what operation()
\* returned for the product the creator's own factory_method() returned.
C1_SomeOperationResult ==
    /\ (Ended("some_operation") /\ ClassOf(call.self) = "SneakersCreator")
          => exc = "" /\ ret = Str("ShoesCreator works with: Sneakers shoes!")
    /\ (Ended("some_operation") /\ ClassOf(call.self) = "CrocksCreator")
          => exc = "" /\ ret = Str("ShoesCreator works with: Crocks shoes!")
    /\ (At("", "client_side_method", 1) /\ ClassOf(Top.self) = "SneakersCreator")
          => Top.val = Str("ShoesCreator works with: Sneakers shoes!")
    /\ (At("", "client_side_method", 1) /\ ClassOf(Top.self) = "CrocksCreator")
          => Top.val = Str("ShoesCreator works with: Crocks shoes!")
    /\ (At("ShoesCreator", "some_operation", 2) /\ ClassOf(Top.self) \in ConcreteCreators)
          => /\ LastMade.creator = Top.self
             /\ Top.shoes = LastMade.val
             /\ ClassOf(Top.shoes.o) = "Sneakers" => Top.val = Str("Sneakers shoes!")
             /\ ClassOf(Top.shoes.o) = "Crocks" => Top.val = Str("Crocks shoes!")

\* both creators have returned from some_operation, one to the importer,
\* one to client_side_method
C1_Witness ==
    /\ Ended("some_operation")
    /\ ClassOf(call.self) = "CrocksCreator"
    /\ ret = Str("ShoesCreator works with: Crocks shoes!")
    /\ Len(runs) = 1
    /\ runs[1].cls = "SneakersCreator"

\* C2: whatever calls came before and whichever instance is used, every
\* factory_method() of a SneakersCreator returns a Sneakers object and every
\* factory_method() of a CrocksCreator returns a Crocks object.
C2_ProductFollowsCreator ==
    \A i \in 1..Len(made) :
        /\ ClassOf(made[i].creator) = "SneakersCreator"
              => made[i].val.t = "obj" /\ ClassOf(made[i].val.o) = "Sneakers"
        /\ ClassOf(made[i].creator) = "CrocksCreator"
              => made[i].val.t = "obj" /\ ClassOf(made[i].val.o) = "Crocks"

\* two instances of CrocksCreator have each made a product, the second one
\* after output was written
C2_Witness ==
    /\ Len(made) = 2
    /\ made[1].creator # made[2].creator
    /\ ClassOf(made[1].creator) = "CrocksCreator"
    /\ ClassOf(made[2].creator) = "CrocksCreator"
    /\ stdout # <<>>

\* C3: a client_side_method call on a SneakersCreator writes exactly the one
\* line "ShoesCreator works with: Sneakers shoes!" and its line break, on a
\* CrocksCreator exactly "ShoesCreator works with: Crocks shoes!" and its
\* line break, nothing else, raises nothing, and returns None.
C3_ClientWritesOneLine ==
    /\ \A i \in 1..Len(runs) :
          /\ runs[i].cls = "SneakersCreator"
                => runs[i].exc = "" /\ runs[i].out = <<"ShoesCreator works with: Sneakers shoes!\n">>
          /\ runs[i].cls = "CrocksCreator"
                => runs[i].exc = "" /\ runs[i].out = <<"ShoesCreator works with: Crocks shoes!\n">>
    /\ (Ended("client_side_method") /\ ClassOf(call.self) \in ConcreteCreators)
          => ret = None /\ exc = ""
    /\ \A i \in 1..Len(stack) :
          (stack[i].fn = "client_side_method" /\ stack[i].pc < 2 /\ exc = "")
             => Len(stdout) = call.mark

\* client_side_method has run to its end for a creator of each variant
C3_Witness ==
    /\ Ended("client_side_method")
    /\ Len(runs) = 2
    /\ runs[1].cls = "SneakersCreator"
    /\ runs[2].cls = "CrocksCreator"
    /\ Len(stdout) = 2

\* C5: two client_side_method calls that receive creators of the same class
\* write the same output and end the same way, whichever instances they get
\* and whatever was called before.
C5_Substitutable ==
    \A i, j \in 1..Len(runs) :
        runs[i].cls = runs[j].cls
           => runs[i].out = runs[j].out /\ runs[i].exc = runs[j].exc

\* two different instances of one class have been passed, with output
\* already written before the second call
C5_Witness ==
    /\ Len(runs) = 2
    /\ runs[1].cls = "SneakersCreator"
    /\ runs[2].cls = "SneakersCreator"
    /\ runs[1].creator # runs[2].creator
    /\ runs[2].out # <<>>


MainOutput ==
    << "SneakersCreator:\n",
       "ShoesCreator works with: Sneakers shoes!\n",
       "\n",
       "CrocksCreator:\n",
       "ShoesCreator works with: Crocks shoes!\n" >>

MainDone == name = "__main__" /\ mainpc = "done" /\ stack = <<>> /\ exc = ""

IsPrefix(a, b) == Len(a) <= Len(b) /\ a = SubSeq(b, 1, Len(a))

MainRank ==
    CASE mainpc = "108" -> 0 [] mainpc = "109" -> 1 [] mainpc = "109.call" -> 2
      [] mainpc = "110" -> 3 [] mainpc = "111" -> 4 [] mainpc = "112" -> 5
      [] mainpc = "112.call" -> 6 [] OTHER -> 7

\* steps taken by the script so far: its position, then the events of the
\* call it is in
MainProgress == 100 * MainRank + Len(log)

\* C4: run as a script, the module writes the five lines "SneakersCreator:",
\* "ShoesCreator works with: Sneakers shoes!", a blank line, "CrocksCreator:",
\* "ShoesCreator works with: Crocks shoes!" in this order (at every moment the
\* output is a prefix of them, so no line comes before or after its place),
\* four of them non-blank and one blank, raises nothing, and terminates:
\* until it is past line 112 with all five lines written a step is always
\* possible, and every step makes progress.
C4_MainRun ==
    /\ [](name = "__main__" =>
            /\ IsPrefix(stdout, MainOutput)
            /\ exc = ""
            /\ MainDone \/ ENABLED Next
            /\ MainDone =>
                 /\ stdout = MainOutput
                 /\ Cardinality({i \in 1..Len(stdout) : stdout[i] # "\n"}) = 4
                 /\ Cardinality({i \in 1..Len(stdout) : stdout[i] = "\n"}) = 1)
    /\ [][name = "__main__" => MainProgress' > MainProgress]_vars

\* the script has ended
C4_Witness == MainDone /\ Len(stdout) = 5

HasAbstract(c) == AbstractMethods(c) # {}

\* C6 as stated: a subclass that leaves an abstract method unimplemented is
\* rejected when it is defined, so that no such class ever exists.
C6_RejectedAtDefinition == \A c \in defined \ ModuleClasses : ~HasAbstract(c)

\* C6 as amended: such a class can be defined, and is rejected when it is
\* instantiated: the constructor raises TypeError and makes no object, so no
\* instance of such a class (or of the abstract bases) exists and no frame of
\* some_operation, factory_method, operation or client_side_method runs on one.
C6_RejectedAtInstantiation ==
    /\ \A o \in 1..Len(heap) : ~HasAbstract(ClassOf(o))
    /\ \A i \in 1..Len(stack) : ~HasAbstract(ClassOf(stack[i].self))
    /\ (stack = <<>> /\ call.fn \in defined /\ HasAbstract(call.fn))
          => exc = "TypeError" /\ ret = None
    /\ (stack = <<>> /\ call.fn \in defined /\ ~HasAbstract(call.fn))
          => exc = "" /\ ret = Obj(Len(heap)) /\ ClassOf(Len(heap)) = call.fn

\* both kinds of incomplete subclass were defined and an instantiation of
\* each kind was refused
C6_Witness ==
    /\ {"BareCreator", "BareShoes"} \subseteq defined
    /\ call.fn = "BareShoes"
    /\ exc = "TypeError"
    /\ ninst = 2
    /\ heap = <<>>

\* C7: every factory_method() of a SneakersCreator or CrocksCreator returns
\* an object that did not exist before the call; no two calls, on one
\* creator or on two, return the same object; and no object holds a
\* reference to another, so no creator keeps or shares a product.
C7_FreshProducts ==
    /\ \A i \in 1..Len(made) :
          ClassOf(made[i].creator) \in ConcreteCreators
             => made[i].val.t = "obj" /\ made[i].fresh
    /\ \A i, j \in 1..Len(made) :
          (i # j /\ made[i].val.t = "obj" /\ made[j].val.t = "obj")
             => made[i].val.o # made[j].val.o
    /\ \A o \in 1..Len(heap) : heap[o].attrs = {}

\* one SneakersCreator has been asked twice, by two different routes
C7_Witness ==
    /\ Len(made) = 2
    /\ made[1].creator = made[2].creator
    /\ ClassOf(made[1].creator) = "SneakersCreator"
    /\ Len(runs) = 1
    /\ stack = <<>>

\* C8: operation() of a Sneakers returns "Sneakers shoes!" and of a Crocks
\* "Crocks shoes!", on every call, to the importer and to some_operation
\* alike (non-empty strings that differ), and a step of operation() leaves
\* the objects, the classes, the output and the exception state as they were.
C8_OperationPure ==
    /\ []((Ended("operation") /\ ClassOf(call.self) = "Sneakers")
             => exc = "" /\ ret = Str("Sneakers shoes!"))
    /\ []((Ended("operation") /\ ClassOf(call.self) = "Crocks")
             => exc = "" /\ ret = Str("Crocks shoes!"))
    /\ []((At("ShoesCreator", "some_operation", 2) /\ ClassOf(Top.shoes.o) = "Sneakers")
             => Top.val = Str("Sneakers shoes!"))
    /\ []((At("ShoesCreator", "some_operation", 2) /\ ClassOf(Top.shoes.o) = "Crocks")
             => Top.val = Str("Crocks shoes!"))
    /\ [][(Sneakers_operation \/ Crocks_operation)
             => UNCHANGED <<heap, defined, stdout, exc, name, mainpc>>]_vars

\* the importer has called operation() twice on one product
C8_Witness ==
    /\ Ended("operation")
    /\ ncalls = 2
    /\ ninst = 1
    /\ Len(heap) = 1
    /\ ret = Str("Sneakers shoes!")

\* C9 as stated: every client_side_method call on an instance of an
\* instantiable subclass of ShoesCreator completes and writes its line.
C9_ClientNeverFails ==
    \A i \in 1..Len(runs) : runs[i].exc = "" /\ Len(runs[i].out) = 1

\* C9 as amended: a client_side_method call on a SneakersCreator or a
\* CrocksCreator never has an exception in flight, completes and writes its
\* one line; on an instance of a subclass whose factory_method delegates to
\* the body of ShoesCreator.factory_method, that body returns None,
\* some_operation raises AttributeError on it, the exception leaves
\* client_side_method and nothing is written.
C9_ClientFailsOnlyOnNone ==
    /\ \A i \in 1..Len(runs) :
          /\ runs[i].cls \in ConcreteCreators
                => runs[i].exc = "" /\ Len(runs[i].out) = 1
          /\ runs[i].cls = "DelegatingCreator"
                => runs[i].exc = "AttributeError" /\ runs[i].out = <<>>
    /\ (stack # <<>> /\ stack[1].fn = "client_side_method"
          /\ ClassOf(stack[1].self) \in ConcreteCreators) => exc = ""
    /\ (Ended("client_side_method") /\ ClassOf(call.self) \in ConcreteCreators)
          => exc = ""

\* client_side_method has been called on a delegating creator and on a
\* SneakersCreator
C9_Witness ==
    /\ Len(runs) = 2
    /\ runs[1].cls = "DelegatingCreator"
    /\ runs[1].exc = "AttributeError"
    /\ runs[2].cls = "SneakersCreator"
    /\ runs[2].exc = ""

SomeOperationTrace(c, p) ==
    << Event("call", "some_operation", c),
       Event("call", "factory_method", c),
       Event("new", ClassOf(p), p),
       Event("return", "factory_method", p),
       Event("call", "operation", p),
       Event("return", "operation", 0),
       Event("return", "some_operation", 0) >>

ClientTrace(c, p) ==
    << Event("call", "client_side_method", c) >>
    \o SomeOperationTrace(c, p)
    \o << Event("print", "client_side_method", 0),
          Event("return", "client_side_method", 0) >>

\* C10: a some_operation() call on a SneakersCreator or CrocksCreator
\* consists of exactly one factory_method() call on that creator, which
\* makes one product, then one operation() call on that product, then the
\* return; a client_side_method() call consists of exactly one
\* some_operation() call, then one print after it has returned, then the
\* return. So each ends with exactly one product made.
C10_CallSequence ==
    /\ (Ended("some_operation") /\ ClassOf(call.self) \in ConcreteCreators)
          => /\ log = SomeOperationTrace(call.self, LastMade.val.o)
             /\ LastMade.val.o = Len(heap)
    /\ (Ended("client_side_method") /\ ClassOf(call.self) \in ConcreteCreators)
          => /\ log = ClientTrace(call.self, LastMade.val.o)
             /\ LastMade.val.o = Len(heap)

\* both kinds of call have ended
C10_Witness ==
    /\ Ended("client_side_method")
    /\ ClassOf(call.self) = "CrocksCreator"
    /\ Len(log) = 10
    /\ Len(made) = 2
    /\ Len(runs) = 1

====
